---- MODULE Spec2Model ----
(***************************************************************************)
(* Restore orchestration of the Power BI backup/restore service.           *)
(*                                                                         *)
(* Two endpoints start a restore run as a background task:                 *)
(*   restore_components (main.py) runs run_unified_restore, which calls    *)
(*   the phase executors of restore_service.py for the selected phases;    *)
(*   create_restore (main.py) runs run_restore, which calls                *)
(*   CompletePowerBIRestoreService.restore_all_components.                 *)
(* The Reports phase (ReportsRestoreService.restore_reports_pbix) and the  *)
(* client call it makes (PowerBIApiClient.import_pbix) are modelled step   *)
(* by step; a step ends where the code awaits a remote call.               *)
(*                                                                         *)
(* A name is a sequence of one-character strings, so that suffixing,       *)
(* sanitising and sorting are computed as the code computes them.          *)
(***************************************************************************)
EXTENDS Integers, Sequences, FiniteSets, TLC

VARIABLES
    entry,               \* endpoint that started the run
    selected,            \* restore_* flags of the request, as a set of phases
    manifest,            \* state of backup_<id>.json on disk
    reports_dir,         \* whether <backup_folder>/reports exists
    pc,                  \* position of the handler / background task
    cur,                 \* index in PhaseSeq of the phase block being executed
    job,                 \* backup_jobs[<job id>]["status"], "none" when absent
    components,          \* restoration_results["components"] / restored_items["components"]
    summary,             \* restoration_results["summary"]
    dataset_id_mapping,  \* the orchestrator's local dataset_id_mapping
    ret,                 \* outcome of the executor call being committed
    files,               \* pbix_files: sorted stems of the *.pbix files
    idx,                 \* position of the for loop over pbix_files
    existing_datasets,   \* the phase's local list of taken names
    final_dataset_name,  \* the phase's resolved name of the current item
    new_dataset_id,      \* the phase's local new_dataset_id
    results,             \* the phase's results dictionary
    remote,              \* datasets of the target workspace, as listed by the service
    pending,             \* accepted imports whose dataset is not listed yet
    nextId,              \* next dataset id the service hands out
    events,              \* history: executor calls and returns, in order
    raised,              \* history: phases whose executor raised
    schedArg,            \* history: mapping handed to restore_refresh_schedules
    itemLog,             \* history: one record per processed *.pbix file
    schedules,           \* backup_data["refresh_schedules"]: the schedule entries
    datasets,            \* restore_refresh_schedules' local name -> id dictionary
    sidx,                \* position of the for loop over schedules
    sresults,            \* restore_refresh_schedules' results dictionary
    pass,                \* 0 inside a restore run; else the number of the direct call
    behaviour,           \* how the service answers the direct calls of the phase
    firstRun,            \* results and requests of the first direct call
    updateLog,           \* history: schedule-update requests handed to the service
    listFailed,          \* history: phases in which a get_datasets call failed
    backup_jobs,         \* the registry: job id -> status
    req,                 \* per request: kind, workspace name, position, job id
    clock,               \* datetime.now(), in seconds
    uuids,               \* number of uuid4() values handed out
    writes,              \* history: (job id, request) of every registry write
    ikind,               \* the phase an item executor is called for
    items,               \* the section of the manifest handed to the executor
    iidx,                \* position of the executor's for loop
    iresults             \* the executor's results dictionary

vars == <<entry, selected, manifest, reports_dir, pc, cur, job, components,
          summary, dataset_id_mapping, ret, files, idx, existing_datasets,
          final_dataset_name, new_dataset_id, results, remote, pending,
          nextId, events, raised, schedArg, itemLog, schedules, datasets,
          sidx, sresults, pass, behaviour, firstRun, updateLog, listFailed,
          backup_jobs, req, clock, uuids, writes, ikind, items, iidx,
          iresults>>

orchVars == <<components, summary, dataset_id_mapping>>
phaseVars == <<files, idx, existing_datasets, final_dataset_name,
               new_dataset_id, results>>
remoteVars == <<remote, pending, nextId>>
inputVars == <<entry, selected, manifest, reports_dir>>
schedVars == <<schedules, datasets, sidx, sresults, pass, behaviour, firstRun,
               updateLog>>
jobVars == <<backup_jobs, req, clock, uuids, writes>>
itemVars == <<ikind, items, iidx, iresults>>

----------------------------------------------------------------------------
(* Bounds of the model.                                                    *)

MaxFiles == 2          \* *.pbix files in the reports directory (reports runs)
OrchMaxFiles == 1      \* *.pbix files in the reports directory (full runs)
MaxTarget == 2         \* datasets in the target workspace before the run
MaxSched == 2          \* schedule entries of the backup (direct calls)
MaxRequests == 2       \* concurrent backup / restore requests
MaxClock == 1          \* seconds that pass while the requests are served
MaxItems == 2          \* entries handed to an item executor (direct calls)

----------------------------------------------------------------------------
(* Names.                                                                  *)

NameA == <<"A">>
NameA1 == <<"A", "_", "1">>
NameA2 == <<"A", "_", "2">>
NameQA == <<"'", "A">>
NoName == <<>>

DigitChars == <<"0", "1", "2", "3", "4", "5", "6", "7", "8", "9">>

\* ord() of the characters that occur in the modelled file names
CharCode == [c \in {" ", "\"", "'", ".", "0", "1", "2", "3", "4", "5", "6",
                    "7", "8", "9", "A", "R", "\\", "_", "b", "e", "i", "o",
                    "p", "r", "t", "x"} |->
    CASE c = " " -> 32 [] c = "\"" -> 34 [] c = "'" -> 39 [] c = "." -> 46
      [] c = "0" -> 48 [] c = "1" -> 49 [] c = "2" -> 50 [] c = "3" -> 51
      [] c = "4" -> 52 [] c = "5" -> 53 [] c = "6" -> 54 [] c = "7" -> 55
      [] c = "8" -> 56 [] c = "9" -> 57 [] c = "A" -> 65 [] c = "R" -> 82
      [] c = "\\" -> 92 [] c = "_" -> 95 [] c = "b" -> 98 [] c = "e" -> 101
      [] c = "i" -> 105 [] c = "o" -> 111 [] c = "p" -> 112 [] c = "r" -> 114
      [] c = "t" -> 116 [] c = "x" -> 120]

\* str(k) for k >= 0
RECURSIVE IntToName(_)
IntToName(k) ==
    IF k < 10 THEN <<DigitChars[k + 1]>>
    ELSE IntToName(k \div 10) \o <<DigitChars[(k % 10) + 1]>>

\* f"{name}_{k}"
Suffixed(name, k) == name \o <<"_">> \o IntToName(k)

\* Python's < on str
RECURSIVE StrLess(_, _)
StrLess(a, b) ==
    IF a = <<>> THEN b # <<>>
    ELSE IF b = <<>> THEN FALSE
    ELSE IF CharCode[Head(a)] < CharCode[Head(b)] THEN TRUE
    ELSE IF CharCode[Head(a)] > CharCode[Head(b)] THEN FALSE
    ELSE StrLess(Tail(a), Tail(b))

FileExt == <<".", "p", "b", "i", "x">>

\* order of two Path objects of one directory: the order of their file names
PathLess(s, t) == StrLess(s \o FileExt, t \o FileExt)

\* sorted(list(Path(pbix_files_path).glob("*.pbix"))), as stems
RECURSIVE SortedStems(_)
SortedStems(S) ==
    IF S = {} THEN <<>>
    ELSE LET m == CHOOSE x \in S : \A y \in S \ {x} : PathLess(x, y)
         IN  <<m>> \o SortedStems(S \ {m})

\* the sanitising replace chain of import_pbix, one character at a time
RECURSIVE ReplaceChain(_)
ReplaceChain(s) ==
    IF s = <<>> THEN <<>>
    ELSE LET c == Head(s)
             r == ReplaceChain(Tail(s))
         IN  IF c \in {" ", "/", "\\"} THEN <<"_">> \o r
             ELSE IF c \in {"\"", "'"} THEN r
             ELSE <<c>> \o r

ImportedReport == <<"I", "m", "p", "o", "r", "t", "e", "d",
                    "R", "e", "p", "o", "r", "t">>
ReportPrefix == <<"R", "e", "p", "o", "r", "t", "_">>

\* import_pbix: the sanitised report_name
Sanitize(name) ==
    LET s == ReplaceChain(name)
        t == IF s = <<>> THEN ImportedReport ELSE s
    IN  IF Head(t) \in {DigitChars[i] : i \in 1..10} THEN ReportPrefix \o t
        ELSE t

----------------------------------------------------------------------------
(* Phases, report entries and the values the executors hand back.          *)

\* variant: the schedules block placed before the datasets block
PhaseSeqSwapped == <<"reports", "refresh_schedules", "datasets",
                     "dashboards", "dataflows", "apps">>

\* the order of the phase blocks in run_unified_restore and
\* restore_all_components
PhaseSeq == <<"reports", "datasets", "refresh_schedules",
              "dashboards", "dataflows", "apps">>
Phases == {PhaseSeq[i] : i \in 1..Len(PhaseSeq)}

Unified == entry = "restore_components"
CurPhase == PhaseSeq[cur]

EmptyMap == [n \in {} |-> 0]
Put(f, k, v) == [x \in DOMAIN f \cup {k} |-> IF x = k THEN v ELSE f[x]]

NoId == 0          \* Python's None as a dataset id
Unbound == -1      \* the local new_dataset_id before its first assignment

\* results = {...} at the top of restore_reports_pbix
InitResults ==
    [status |-> "in_progress", imported |-> 0, failed |-> 0,
     duplicate_handled |-> 0, details |-> <<>>, pbix_files_found |-> 0,
     dataset_id_mapping |-> EmptyMap, error |-> FALSE]

NoResults == [InitResults EXCEPT !.status = "none"]
NoRet == [kind |-> "none", status |-> "none", error |-> FALSE, body |-> "none"]

\* the value an executor returned: a results dictionary (or an int)
Returned(status, error, body) ==
    [kind |-> "value", status |-> status, error |-> error, body |-> body]
Raised == [kind |-> "exc", status |-> "none", error |-> TRUE, body |-> "none"]

\* {"status": "failed", "error": str(e)} written by a phase's except block
FailedEntry == [status |-> "failed", error |-> TRUE, body |-> "literal"]
\* {"status": "skipped", "reason": ...} written when the reports directory is missing
SkippedEntry == [status |-> "skipped", error |-> FALSE, body |-> "literal"]

\* results["status"] each executor starts with and returns
ExecStatus(p) ==
    CASE p = "datasets" -> "completed"
      [] p = "refresh_schedules" -> "completed"
      [] p = "dashboards" -> "documented"
      [] p = "dataflows" -> "documented"
      [] p = "apps" -> "documented"

\* shape of a section of the manifest, backup_data.get(<kind>, [])
ManifestShapes == {"list", "dict", "null"}

\* whether the executor of phase p raises on a section of that shape
\* (restore_reports only takes len(); the others iterate and call .get on
\* each element, also inside the per-item except block)
ExecutorRaises(p, shape) ==
    IF p = "reports" THEN shape = "null" ELSE shape # "list"

Names(listing) == {listing[i].name : i \in 1..Len(listing)}

----------------------------------------------------------------------------
(* Name resolution.                                                        *)

\* restore_reports_pbix: while f"{report_name}_{counter}" in existing_datasets
RECURSIVE PhaseCounter(_, _, _)
PhaseCounter(report_name, existing, counter) ==
    IF Suffixed(report_name, counter) \in existing
    THEN PhaseCounter(report_name, existing, counter + 1)
    ELSE counter

\* restore_reports_pbix: final_dataset_name
ResolveName(report_name, existing) ==
    IF report_name \in existing
    THEN Suffixed(report_name, PhaseCounter(report_name, existing, 1))
    ELSE report_name

\* import_pbix: while dataset_display_name in dataset_names
RECURSIVE PbixDedupe(_, _, _, _)
PbixDedupe(original_name, dataset_names, counter, dataset_display_name) ==
    IF dataset_display_name \in dataset_names
    THEN PbixDedupe(original_name, dataset_names, counter + 1,
                    Suffixed(original_name, counter + 1))
    ELSE dataset_display_name

\* import_pbix: datasetDisplayName of the import request for the file with
\* this stem; listOK is whether import_pbix's own get_datasets call succeeded
DisplayName(stem, listOK, listing) ==
    IF listOK THEN PbixDedupe(stem, Names(listing), 1, stem) ELSE stem

\* variant: the first listed dataset is taken, whatever its name
FindFirstId(listing, name) ==
    IF listing = <<>> THEN NoId ELSE Head(listing).id

\* restore_reports_pbix: the loop over datasets_response looking for
\* final_dataset_name; the id of the first match, None without a match
RECURSIVE FindDatasetId(_, _)
FindDatasetId(listing, name) ==
    IF listing = <<>> THEN NoId
    ELSE IF Head(listing).name = name THEN Head(listing).id
    ELSE FindDatasetId(Tail(listing), name)

----------------------------------------------------------------------------
(* The initial state: a request has arrived, nothing has run.              *)

OrchStemPool == {NameA, NameA1}
StemPool == {NameA, NameA1, NameQA}
OrchTargetPool == {NameA}
TargetPool == {NameA, NameA1, NameA2}

\* the directory listings the pool allows
FileLists(pool, n) ==
    {SortedStems(S) : S \in {T \in SUBSET pool : Cardinality(T) <= n}}

\* the dataset lists the target workspace may start with
TargetLists(pool, n) ==
    {[i \in 1..Len(q) |-> [name |-> q[i], id |-> i]] : q \in FileLists(pool, n)}

NameB == <<"B">>

\* one entry of backup_data["refresh_schedules"], as the backup wrote it
ScheduleEntry(name, enabled, days, times) ==
    [dataset_name |-> name,
     schedule |-> [null |-> FALSE,
                   enabled |-> enabled, days |-> days, times |-> times,
                   localTimeZoneId |-> "CET",
                   notifyOption |-> "NoNotification"]]

\* an entry whose "schedule" is null in the manifest (the fields other than
\* null have no meaning then)
NullScheduleEntry(name) ==
    [ScheduleEntry(name, FALSE, <<>>, <<>>) EXCEPT !.schedule.null = TRUE]

Monday == <<"Monday">>
OneAM == <<"01:00">>

\* the schedule entries of the backup
SeqsUpTo(pool, n) == UNION {[1..k -> pool] : k \in 0..n}
OrchSchedLists == {<<>>, <<ScheduleEntry(NameA, TRUE, Monday, OneAM)>>}
SchedEntryPool ==
    {ScheduleEntry(NameA, c[1], c[2], c[3]) :
        c \in {<<FALSE, Monday, OneAM>>, <<FALSE, <<>>, <<>> >>,
               <<TRUE, <<>>, OneAM>>, <<TRUE, Monday, <<>> >>,
               <<TRUE, <<>>, <<>> >>, <<TRUE, Monday, OneAM>>}}
    \cup {ScheduleEntry(NameB, TRUE, Monday, OneAM), NullScheduleEntry(NameA)}

\* the mapping handed to a direct call of the phase
MappedId == 7
SchedMappings ==
    {EmptyMap, Put(EmptyMap, NameA, MappedId),
     Put(Put(EmptyMap, NameA, MappedId), NameB, MappedId + 1)}

\* the dataset ids a schedule entry can resolve to
IdsOf(listing, mapping) ==
    {listing[i].id : i \in 1..Len(listing)}
        \cup {mapping[n] : n \in DOMAIN mapping}

\* the results dictionary of an item executor that has not been called
NoItemResults ==
    [status |-> "none", restored |-> 0, failed |-> 0,
     manual_recreation_required |-> 0, total |-> 0, details |-> <<>>]

\* no direct call of an item executor
InitItemsIdle ==
    /\ ikind = "none"
    /\ items = <<>>
    /\ iidx = 0
    /\ iresults = NoItemResults

\* the registry before any request
InitJobsIdle ==
    /\ backup_jobs = EmptyMap
    /\ req = <<>>
    /\ clock = 0
    /\ uuids = 0
    /\ writes = <<>>

\* the results dictionary restore_refresh_schedules starts with
FreshSchedResults ==
    [status |-> "completed", restored |-> 0, failed |-> 0, skipped |-> 0,
     details |-> <<>>]
NoSchedResults == [FreshSchedResults EXCEPT !.status = "none"]

\* no direct call of the phase: the service answers as it likes
NoBehaviour == [listOK |-> TRUE, status |-> EmptyMap]
NoFirstRun == [results |-> NoSchedResults, log |-> <<>>]

InitRun ==
    /\ pc = "request"
    /\ cur = 1
    /\ job = "none"
    /\ components = EmptyMap
    /\ summary = [total_components |-> 0, successful |-> 0, failed |-> 0]
    /\ dataset_id_mapping = EmptyMap
    /\ ret = NoRet
    /\ idx = 0
    /\ existing_datasets = {}
    /\ final_dataset_name = NoName
    /\ new_dataset_id = Unbound
    /\ results = NoResults
    /\ pending = <<>>
    /\ nextId = Len(remote) + 1
    /\ events = <<>>
    /\ raised = {}
    /\ schedArg = [passed |-> FALSE, mapping |-> EmptyMap]
    /\ itemLog = <<>>
    /\ datasets = EmptyMap
    /\ sidx = 0
    /\ sresults = NoSchedResults
    /\ firstRun = NoFirstRun
    /\ updateLog = <<>>
    /\ listFailed = {}

Init ==
    /\ entry \in {"restore_components", "create_restore"}
    /\ selected \in IF Unified THEN SUBSET Phases ELSE {Phases}
    /\ manifest \in {"ok", "missing", "unparsable"}
    /\ reports_dir \in BOOLEAN
    /\ files \in IF reports_dir THEN FileLists(OrchStemPool, OrchMaxFiles)
                 ELSE {<<>>}
    /\ remote \in TargetLists(OrchTargetPool, MaxTarget)
    /\ schedules \in IF "refresh_schedules" \in selected THEN OrchSchedLists
                     ELSE {<<>>}
    /\ pass = 0
    /\ behaviour = NoBehaviour
    /\ InitJobsIdle
    /\ InitItemsIdle
    /\ InitRun

----------------------------------------------------------------------------
(* The request handlers and the start of the background task.              *)

\* restore_components: validation, job id, add_task, initial job status
RestoreComponentsHandler ==
    /\ pc = "request"
    /\ Unified
    /\ IF selected = {} \/ manifest = "missing"
       THEN pc' = "rejected" /\ job' = job
       ELSE pc' = "task" /\ job' = "in_progress"
    /\ UNCHANGED <<inputVars, schedVars, jobVars, itemVars, listFailed,
                   cur, orchVars, ret, phaseVars, remoteVars,
                   events, raised, schedArg, itemLog>>

\* create_restore: job id, add_task, initial job status
CreateRestoreHandler ==
    /\ pc = "request"
    /\ ~Unified
    /\ pc' = "task"
    /\ job' = "in_progress"
    /\ UNCHANGED <<inputVars, schedVars, jobVars, itemVars, listFailed,
                   cur, orchVars, ret, phaseVars, remoteVars,
                   events, raised, schedArg, itemLog>>

\* run_unified_restore / run_restore: the manifest is read and parsed
LoadManifest ==
    /\ pc = "task"
    /\ manifest = "ok"
    /\ pc' = "phase"
    /\ cur' = 1
    /\ summary' = [total_components |-> Cardinality(selected),
                   successful |-> 0, failed |-> 0]
    /\ components' = EmptyMap
    /\ dataset_id_mapping' = EmptyMap
    /\ UNCHANGED <<inputVars, schedVars, jobVars, itemVars, listFailed,
                   job, ret, phaseVars, remoteVars,
                   events, raised, schedArg, itemLog>>

\* variant: the manifest error is swallowed and the phases run on nothing
ManifestErrorIgnored ==
    /\ pc = "task"
    /\ manifest # "ok"
    /\ pc' = "phase"
    /\ job' = job
    /\ UNCHANGED <<inputVars, schedVars, jobVars, itemVars, listFailed,
                   cur, orchVars, ret, phaseVars, remoteVars,
                   events, raised, schedArg, itemLog>>

\* run_unified_restore / run_restore: open() or json.load raises, the
\* outermost except block records the job as failed
ManifestError ==
    /\ pc = "task"
    /\ manifest # "ok"
    /\ pc' = "aborted"
    /\ job' = "failed"
    /\ UNCHANGED <<inputVars, schedVars, jobVars, itemVars, listFailed,
                   cur, orchVars, ret, phaseVars, remoteVars,
                   events, raised, schedArg, itemLog>>

\* the orchestrator moves on to the next phase block
NextBlock ==
    /\ pc' = "phase"
    /\ cur' = cur + 1

\* variant: an unselected phase is entered in the report as skipped
SkipPhaseMarks ==
    /\ pc = "phase"
    /\ cur <= Len(PhaseSeq)
    /\ Unified
    /\ CurPhase \notin selected
    /\ components' = Put(components, CurPhase,
                         [status |-> "skipped", error |-> FALSE,
                          body |-> "literal"])
    /\ NextBlock
    /\ UNCHANGED <<inputVars, schedVars, jobVars, itemVars, listFailed,
                   job, summary, dataset_id_mapping, ret,
                   phaseVars, remoteVars, events, raised, schedArg, itemLog>>

\* run_unified_restore: if restore_<phase>: is false
SkipPhase ==
    /\ pc = "phase"
    /\ cur <= Len(PhaseSeq)
    /\ Unified
    /\ CurPhase \notin selected
    /\ NextBlock
    /\ UNCHANGED <<inputVars, schedVars, jobVars, itemVars, listFailed,
                   job, orchVars, ret, phaseVars, remoteVars,
                   events, raised, schedArg, itemLog>>

----------------------------------------------------------------------------
(* The Reports phase of run_unified_restore.                               *)

ReportsBlock ==
    /\ pc = "phase"
    /\ cur <= Len(PhaseSeq)
    /\ CurPhase = "reports"
    /\ Unified
    /\ "reports" \in selected

StartEvent(p) == [kind |-> "start", phase |-> p]
EndEvent(p) == [kind |-> "end", phase |-> p]

\* run_unified_restore: the reports directory is missing, the executor is
\* not called
ReportsDirMissing ==
    /\ ReportsBlock
    /\ ~reports_dir
    /\ components' = Put(components, "reports", SkippedEntry)
    /\ NextBlock
    /\ UNCHANGED <<inputVars, schedVars, jobVars, itemVars, listFailed,
                   job, summary, dataset_id_mapping, ret, phaseVars,
                   remoteVars, events, raised, schedArg, itemLog>>

\* restore_reports_pbix returns to run_unified_restore
RpReturn(res) ==
    /\ results' = res
    /\ ret' = Returned(res.status, res.error, "results")
    /\ pc' = "commit"

\* restore_reports_pbix: glob raises, the outer except block returns the
\* results with status "failed"
RpGlobFails ==
    /\ ReportsBlock
    /\ reports_dir
    /\ RpReturn([InitResults EXCEPT !.status = "failed", !.error = TRUE])
    /\ events' = events \o <<StartEvent("reports"), EndEvent("reports")>>
    /\ UNCHANGED <<inputVars, schedVars, jobVars, itemVars, listFailed,
                   cur, job, orchVars, files, idx,
                   existing_datasets, final_dataset_name, new_dataset_id,
                   remoteVars, raised, schedArg, itemLog>>

\* variant: the existing names are fetched before the file count is tested
RpNoFilesAfterListing ==
    /\ ReportsBlock
    /\ reports_dir
    /\ files = <<>>
    /\ existing_datasets' = Names(remote)
    /\ RpReturn([InitResults EXCEPT !.status = "completed"])
    /\ events' = events \o <<StartEvent("reports"), EndEvent("reports")>>
    /\ UNCHANGED <<inputVars, schedVars, jobVars, itemVars, listFailed,
                   cur, job, orchVars, files, idx,
                   final_dataset_name, new_dataset_id,
                   remoteVars, raised, schedArg, itemLog>>

\* restore_reports_pbix: no *.pbix file, immediate return
RpNoFiles ==
    /\ ReportsBlock
    /\ reports_dir
    /\ files = <<>>
    /\ RpReturn([InitResults EXCEPT !.status = "completed"])
    /\ events' = events \o <<StartEvent("reports"), EndEvent("reports")>>
    /\ UNCHANGED <<inputVars, schedVars, jobVars, itemVars, listFailed,
                   cur, job, orchVars, files, idx,
                   existing_datasets, final_dataset_name, new_dataset_id,
                   remoteVars, raised, schedArg, itemLog>>

\* a get_datasets call made by phase p returned (ok) or raised
ListingOutcome(p, ok) == IF ok THEN listFailed ELSE listFailed \cup {p}

\* restore_reports_pbix up to the loop: the existing dataset names are
\* fetched; a failing get_datasets leaves the list empty
RpBegin ==
    /\ ReportsBlock
    /\ reports_dir
    /\ files # <<>>
    /\ \E listOK \in BOOLEAN :
         /\ existing_datasets' = IF listOK THEN Names(remote) ELSE {}
         /\ listFailed' = ListingOutcome("reports", listOK)
    /\ results' = [InitResults EXCEPT !.pbix_files_found = Len(files)]
    /\ idx' = 1
    /\ pc' = "rp_import"
    /\ events' = Append(events, StartEvent("reports"))
    /\ UNCHANGED <<inputVars, schedVars, jobVars, itemVars,
                   cur, job, orchVars, ret, files,
                   final_dataset_name, new_dataset_id, remoteVars, raised,
                   schedArg, itemLog>>

\* the detail records restore_reports_pbix appends
ImportedDetail(stem, name, id) ==
    [file |-> stem, dataset_name |-> name, original_name |-> stem,
     new_dataset_id |-> id, status |-> "imported", error |-> FALSE]
FailedDetail(stem, name) ==
    [file |-> stem, dataset_name |-> name, original_name |-> NoName,
     new_dataset_id |-> NoId, status |-> "failed", error |-> TRUE]
ErrorDetail(stem) ==
    [file |-> stem, dataset_name |-> NoName, original_name |-> NoName,
     new_dataset_id |-> NoId, status |-> "error", error |-> TRUE]

\* restore_reports_pbix: end of one loop iteration; after the last file the
\* status becomes "completed" and the results are returned
RpAdvance(res) ==
    IF idx = Len(files)
    THEN /\ RpReturn([res EXCEPT !.status = "completed"])
         /\ events' = Append(events, EndEvent("reports"))
         /\ idx' = idx
    ELSE /\ results' = res
         /\ idx' = idx + 1
         /\ pc' = "rp_import"
         /\ UNCHANGED <<ret, events>>

\* restore_reports_pbix: name resolution and the import_pbix call for
\* files[idx].  import_pbix either gives up before the request (file,
\* token or read problem: before its own get_datasets; transport problem:
\* after it), or sends it and the service accepts or rejects.
RpImport ==
    /\ pc = "rp_import"
    /\ LET report_name == files[idx]
           final == ResolveName(report_name, existing_datasets)
           dup == IF report_name \in existing_datasets THEN 1 ELSE 0
           res == [results EXCEPT !.duplicate_handled = @ + dup]
       IN  \E outcome \in {"not_sent", "rejected", "accepted"},
              listOK \in BOOLEAN, fetched \in BOOLEAN :
             LET display == DisplayName(report_name, listOK, remote)
                 entryLog ==
                     [stem |-> report_name, resolved |-> final,
                      taken |-> existing_datasets,
                      fetched |-> fetched,
                      sent |-> outcome # "not_sent",
                      display |-> IF outcome = "not_sent" THEN NoName
                                  ELSE display,
                      logged |-> Sanitize(final),
                      accepted |-> outcome = "accepted",
                      lookup |-> "none", listing |-> <<>>]
             IN  /\ outcome # "not_sent" => fetched
                 /\ ~fetched => listOK
                 /\ listFailed' = ListingOutcome("reports", listOK)
                 /\ final_dataset_name' = final
                 /\ itemLog' = Append(itemLog, entryLog)
                 /\ IF outcome = "accepted"
                    THEN /\ pending' = Append(pending, display)
                         /\ results' = res
                         /\ pc' = "rp_lookup"
                         /\ UNCHANGED <<idx, ret, events>>
                    ELSE /\ pending' = pending
                         /\ RpAdvance([res EXCEPT
                                !.failed = @ + 1,
                                !.details = Append(@,
                                    FailedDetail(report_name, final))])
    /\ UNCHANGED <<inputVars, schedVars, jobVars, itemVars,
                   cur, job, orchVars, files,
                   existing_datasets, new_dataset_id, remote, nextId, raised,
                   schedArg>>

\* restore_reports_pbix after an accepted import: the dataset list is
\* queried again for the new dataset id, then the item is recorded.
\* When get_datasets raises, new_dataset_id keeps whatever it held; reading
\* it while it was never assigned raises, which the per-item except block
\* records.
RpLookup ==
    /\ pc = "rp_lookup"
    /\ LET report_name == files[idx]
       IN  \E listOK \in BOOLEAN :
             LET found == FindDatasetId(remote, final_dataset_name)
                 id == IF listOK THEN found ELSE new_dataset_id
                 mapped == IF listOK /\ found # NoId
                           THEN Put(results.dataset_id_mapping,
                                    report_name, found)
                           ELSE results.dataset_id_mapping
                 counted == [results EXCEPT
                                !.dataset_id_mapping = mapped,
                                !.imported = @ + 1]
             IN  /\ new_dataset_id' = id
                 /\ listFailed' = ListingOutcome("reports", listOK)
                 /\ itemLog' = [itemLog EXCEPT ![Len(itemLog)] =
                        [@ EXCEPT !.lookup = IF listOK THEN "ok" ELSE "fail",
                                  !.listing = IF listOK THEN remote
                                              ELSE <<>>]]
                 /\ IF id = Unbound
                    THEN /\ RpAdvance([counted EXCEPT
                                !.failed = @ + 1,
                                !.details = Append(@, ErrorDetail(report_name))])
                         /\ UNCHANGED existing_datasets
                    ELSE /\ RpAdvance([counted EXCEPT
                                !.details = Append(@,
                                    ImportedDetail(report_name,
                                                   final_dataset_name, id))])
                         /\ existing_datasets' =
                                existing_datasets \cup {final_dataset_name}
    /\ UNCHANGED <<inputVars, schedVars, jobVars, itemVars,
                   cur, job, orchVars, files,
                   final_dataset_name, remoteVars, raised, schedArg>>

\* the service finishes an accepted import: the dataset becomes listed
\* under the display name of the request
Materialise ==
    /\ \E i \in 1..Len(pending) :
         /\ remote' = Append(remote, [name |-> pending[i], id |-> nextId])
         /\ pending' = [j \in 1..(Len(pending) - 1) |->
                           IF j < i THEN pending[j] ELSE pending[j + 1]]
    /\ nextId' = nextId + 1
    /\ UNCHANGED <<inputVars, schedVars, jobVars, itemVars, listFailed,
                   pc, cur, job, orchVars, ret, phaseVars,
                   events, raised, schedArg, itemLog>>

\* variant: the mapping of the reports result is not taken over
CommitReportsDropsMapping ==
    /\ pc = "commit"
    /\ CurPhase = "reports"
    /\ Unified
    /\ components' = Put(components, "reports",
                         [status |-> ret.status, error |-> ret.error,
                          body |-> ret.body])
    /\ summary' = [summary EXCEPT !.successful = @ + 1]
    /\ ret' = NoRet
    /\ NextBlock
    /\ UNCHANGED <<inputVars, schedVars, jobVars, itemVars, listFailed,
                   job, dataset_id_mapping, phaseVars, remoteVars,
                   events, raised, schedArg, itemLog>>

\* run_unified_restore: the reports result is stored, the mapping is taken
\* from it and the phase is counted as successful
CommitReports ==
    /\ pc = "commit"
    /\ CurPhase = "reports"
    /\ Unified
    /\ components' = Put(components, "reports",
                         [status |-> ret.status, error |-> ret.error,
                          body |-> ret.body])
    /\ dataset_id_mapping' = results.dataset_id_mapping
    /\ summary' = [summary EXCEPT !.successful = @ + 1]
    /\ ret' = NoRet
    /\ NextBlock
    /\ UNCHANGED <<inputVars, schedVars, jobVars, itemVars, listFailed,
                   job, phaseVars, remoteVars, events, raised,
                   schedArg, itemLog>>

----------------------------------------------------------------------------
(* The other phase blocks, and the Reports block of restore_all_components. *)

\* body of the value the executor of phase p returns
ExecBody(p) == IF p = "reports" THEN "int" ELSE "results"

\* a phase block calls its executor: restore_datasets, restore_dashboards,
\* restore_dataflows, restore_apps, restore_refresh_schedules (which is
\* handed the orchestrator's dataset_id_mapping), and in
\* restore_all_components also restore_reports, which returns a count
InvokePhase ==
    /\ pc = "phase"
    /\ cur <= Len(PhaseSeq)
    /\ CurPhase \in selected
    /\ ~(Unified /\ CurPhase = "reports")
    /\ \E shape \in IF CurPhase = "refresh_schedules" THEN {"null"}
                    ELSE ManifestShapes :
         IF ExecutorRaises(CurPhase, shape)
         THEN /\ ret' = Raised
              /\ raised' = raised \cup {CurPhase}
         ELSE /\ ret' = Returned(IF CurPhase = "reports" THEN "none"
                                 ELSE ExecStatus(CurPhase),
                                 FALSE, ExecBody(CurPhase))
              /\ raised' = raised
    /\ schedArg' = IF CurPhase = "refresh_schedules"
                   THEN [passed |-> TRUE, mapping |-> dataset_id_mapping]
                   ELSE schedArg
    /\ events' = events \o <<StartEvent(CurPhase), EndEvent(CurPhase)>>
    /\ pc' = "commit"
    /\ UNCHANGED <<inputVars, schedVars, jobVars, itemVars, listFailed,
                   cur, job, orchVars, phaseVars, remoteVars,
                   itemLog>>

\* variant: the exception leaves the phase block and ends the run
CatchPhaseAborts ==
    /\ pc' = "aborted"
    /\ job' = "failed"
    /\ ret' = NoRet
    /\ UNCHANGED <<cur, components, summary>>

\* the except block of a phase: the phase is recorded as failed and the
\* orchestrator goes on with the next block
CatchPhase ==
    /\ components' = Put(components, CurPhase, FailedEntry)
    /\ summary' = IF Unified THEN [summary EXCEPT !.failed = @ + 1]
                  ELSE summary
    /\ ret' = NoRet
    /\ NextBlock
    /\ UNCHANGED job

\* a phase block after its executor: the result is stored in the report
\* (and counted, in run_unified_restore), or the except block runs
CommitPhase ==
    /\ pc = "commit"
    /\ ~(Unified /\ CurPhase = "reports")
    /\ IF ret.kind = "exc"
       THEN CatchPhase
       ELSE /\ components' = Put(components, CurPhase,
                                 [status |-> ret.status, error |-> ret.error,
                                  body |-> ret.body])
            /\ summary' = IF Unified
                          THEN [summary EXCEPT !.successful = @ + 1]
                          ELSE summary
            /\ IF CurPhase = "reports"
               THEN pc' = "extract" /\ UNCHANGED <<cur, ret>>
               ELSE NextBlock /\ ret' = NoRet
            /\ UNCHANGED job
    /\ UNCHANGED <<inputVars, schedVars, jobVars, itemVars, listFailed,
                   dataset_id_mapping, phaseVars, remoteVars,
                   events, raised, schedArg, itemLog>>

\* restore_all_components: reports_result.get(...) on the count returned by
\* restore_reports raises AttributeError; the except block of the Reports
\* block replaces the entry just written
LegacyExtractMapping ==
    /\ pc = "extract"
    /\ CatchPhase
    /\ UNCHANGED <<inputVars, schedVars, jobVars, itemVars, listFailed,
                   dataset_id_mapping, phaseVars, remoteVars,
                   events, raised, schedArg, itemLog>>

\* variant: the finished report is not stored in the registry
FinishNotStored ==
    /\ pc = "phase"
    /\ cur = Len(PhaseSeq) + 1
    /\ job' = job
    /\ pc' = "done"
    /\ UNCHANGED <<inputVars, schedVars, jobVars, itemVars, listFailed,
                   cur, orchVars, ret, phaseVars, remoteVars,
                   events, raised, schedArg, itemLog>>

\* after the last block: the report is complete and stored as the job's
\* registry entry with status "completed"
Finish ==
    /\ pc = "phase"
    /\ cur = Len(PhaseSeq) + 1
    /\ job' = "completed"
    /\ pc' = "done"
    /\ UNCHANGED <<inputVars, schedVars, jobVars, itemVars, listFailed,
                   cur, orchVars, ret, phaseVars, remoteVars,
                   events, raised, schedArg, itemLog>>

----------------------------------------------------------------------------
(* The RefreshSchedules phase: restore_refresh_schedules and the client    *)
(* call update_refresh_schedule.                                           *)

\* variant: the results dictionary is kept from one call to the next
CarriedSchedResults ==
    IF sresults.status = "none" THEN FreshSchedResults ELSE sresults

\* results = {...} at the start of every call
InitSchedResults == FreshSchedResults

\* {d.get('name'): d.get('id') for d in datasets_response.get('value', [])}:
\* a later dataset of the same name replaces an earlier one
RECURSIVE DictOfListing(_)
DictOfListing(listing) ==
    IF listing = <<>> THEN EmptyMap
    ELSE LET n == Len(listing)
         IN  Put(DictOfListing(SubSeq(listing, 1, n - 1)),
                 listing[n].name, listing[n].id)

\* variant: the target's dataset list is consulted before the mapping
ResolveListingFirst(name, mapping, dsets) ==
    IF name \in DOMAIN dsets THEN dsets[name]
    ELSE IF name \in DOMAIN mapping THEN mapping[name]
    ELSE NoId

\* dataset_id = None; if dataset_mapping and dataset_name in dataset_mapping:
\* ... elif dataset_name in datasets: ...
ResolveDatasetId(name, mapping, dsets) ==
    IF name \in DOMAIN mapping THEN mapping[name]
    ELSE IF name \in DOMAIN dsets THEN dsets[name]
    ELSE NoId

\* api_schedule_config, built from the entry's schedule
ApiScheduleConfig(schedule) ==
    [days |-> schedule.days, times |-> schedule.times,
     enabled |-> schedule.enabled,
     localTimeZoneId |-> schedule.localTimeZoneId,
     notifyOption |-> schedule.notifyOption]

\* variant: only a schedule with neither days nor times is left alone
NoUpdateWhenBothEmpty(cfg) ==
    \/ ~cfg.enabled
    \/ cfg.days = <<>> /\ cfg.times = <<>>

\* update_refresh_schedule: the three early "return True"
NoUpdateNeeded(cfg) ==
    \/ ~cfg.enabled
    \/ cfg.days = <<>> /\ cfg.times = <<>>
    \/ cfg.days = <<>> \/ cfg.times = <<>>

\* update_refresh_schedule: the payload of the PATCH request
UpdatePayload(cfg) ==
    [days |-> cfg.days, times |-> cfg.times, enabled |-> TRUE,
     localTimeZoneId |-> cfg.localTimeZoneId,
     notifyOption |-> cfg.notifyOption]

\* variant: only 200 counts as success
AcceptedOnly200 == {200}

\* response.status in [200, 201, 202]
AcceptedStatus == {200, 201, 202}

\* no response: get_access_token or the transport raised
NoResponse == 0
\* what may come back for one update request
UpdateOutcomes == {200, 201, 202, 400, NoResponse}

\* the detail records restore_refresh_schedules appends
SchedSkippedDetail(name) ==
    [dataset |-> name, dataset_id |-> NoId, status |-> "skipped",
     api_call |-> "none", error |-> "none",
     reason |-> "Dataset not found in target workspace"]
SchedConfiguredDetail(name, id) ==
    [dataset |-> name, dataset_id |-> id, status |-> "configured",
     api_call |-> "successful", error |-> "none", reason |-> "none"]
SchedFailedDetail(name, id) ==
    [dataset |-> name, dataset_id |-> id, status |-> "failed",
     api_call |-> "none", error |-> "API call failed", reason |-> "none"]

\* the loop's except block: schedule_config.get on a null schedule raises
\* after the dataset was resolved
SchedRaisedDetail(name) ==
    [dataset |-> name, dataset_id |-> NoId, status |-> "failed",
     api_call |-> "none", error |-> "exception", reason |-> "none"]
\* variant: the except block counts the entry but records no detail
SchedRaisedUnrecorded(res, name) == [res EXCEPT !.failed = @ + 1]

SchedRaised(res, name) ==
    [res EXCEPT !.failed = @ + 1,
                !.details = Append(@, SchedRaisedDetail(name))]

\* if update_success: ... else: ...
SchedRecorded(res, name, id, update_success) ==
    IF update_success
    THEN [res EXCEPT !.restored = @ + 1,
                     !.details = Append(@, SchedConfiguredDetail(name, id))]
    ELSE [res EXCEPT !.failed = @ + 1,
                     !.details = Append(@, SchedFailedDetail(name, id))]

\* restore_refresh_schedules is called: by the RefreshSchedules block of a
\* restore run, or directly
SchedCalled ==
    \/ /\ pass = 0
       /\ pc = "phase"
       /\ cur <= Len(PhaseSeq)
       /\ CurPhase = "refresh_schedules"
       /\ CurPhase \in selected
    \/ /\ pass > 0
       /\ pc = "s_call"

\* what the service may answer: anything inside a restore run, the fixed
\* behaviour in the direct calls
ListingAnswers == IF pass = 0 THEN BOOLEAN ELSE {behaviour.listOK}
UpdateAnswers(id) ==
    IF pass = 0 THEN {202, 400, NoResponse} ELSE {behaviour.status[id]}
\* shapes of the refresh_schedules section that survive len(schedules)
SectionShapes == IF pass = 0 THEN {"list", "dict"} ELSE {"list"}

\* variant: the resolved id is remembered in the mapping
SchedMappingCached(name, id) == Put(dataset_id_mapping, name, id)

\* the phase never assigns into dataset_mapping
SchedMapping(name, id) == dataset_id_mapping

\* restore_refresh_schedules up to the loop: fresh results, the target's
\* datasets are listed; when get_datasets raises, dataset_mapping (or {})
\* takes the place of the list.  Iterating a section that is a dictionary
\* raises in the loop's first iteration and again in its except block, so
\* the call raises.
SchedBegin ==
    /\ SchedCalled
    /\ \E listOK \in ListingAnswers, shape \in SectionShapes :
         /\ datasets' = IF listOK THEN DictOfListing(remote)
                        ELSE dataset_id_mapping
         /\ listFailed' = ListingOutcome("refresh_schedules", listOK)
         /\ IF shape = "dict"
            THEN /\ ret' = Raised
                 /\ raised' = raised \cup {"refresh_schedules"}
                 /\ events' = events \o <<StartEvent("refresh_schedules"),
                                          EndEvent("refresh_schedules")>>
                 /\ pc' = "commit"
                 /\ sidx' = sidx
            ELSE /\ events' = Append(events, StartEvent("refresh_schedules"))
                 /\ pc' = "s_entry"
                 /\ sidx' = 1
                 /\ UNCHANGED <<ret, raised>>
    /\ sresults' = InitSchedResults
    /\ schedArg' = [passed |-> TRUE, mapping |-> dataset_id_mapping]
    /\ UNCHANGED <<inputVars, jobVars, itemVars, cur, job, orchVars, phaseVars,
                   remoteVars, itemLog, schedules, pass, behaviour, firstRun,
                   updateLog>>

\* one iteration of the loop over schedules: the dataset id is resolved;
\* an unresolved entry is skipped; otherwise update_refresh_schedule is
\* called, which returns True without a request when there is nothing to
\* push, and else sends one PATCH request
SchedEntry ==
    /\ pc = "s_entry"
    /\ sidx <= Len(schedules)
    /\ LET e == schedules[sidx]
           name == e.dataset_name
           id == ResolveDatasetId(name, dataset_id_mapping, datasets)
           cfg == ApiScheduleConfig(e.schedule)
       IN  IF id = NoId
           THEN /\ sresults' =
                     [sresults EXCEPT
                        !.skipped = @ + 1,
                        !.details = Append(@, SchedSkippedDetail(name))]
                /\ UNCHANGED <<updateLog, dataset_id_mapping>>
           ELSE /\ dataset_id_mapping' = SchedMapping(name, id)
                /\ IF e.schedule.null
                   THEN /\ sresults' = SchedRaised(sresults, name)
                        /\ updateLog' = updateLog
                   ELSE IF NoUpdateNeeded(cfg)
                   THEN /\ sresults' = SchedRecorded(sresults, name, id, TRUE)
                        /\ updateLog' = updateLog
                   ELSE \E status \in UpdateAnswers(id) :
                          /\ updateLog' = Append(updateLog,
                                [pass |-> pass, entry |-> sidx,
                                 dataset_id |-> id,
                                 payload |-> UpdatePayload(cfg),
                                 status |-> status])
                          /\ sresults' = SchedRecorded(sresults, name, id,
                                            status \in AcceptedStatus)
    /\ sidx' = sidx + 1
    /\ UNCHANGED <<inputVars, jobVars, itemVars,
                   listFailed, pc, cur, job, components,
                   summary, ret, phaseVars, remoteVars, events, raised,
                   schedArg, itemLog, schedules, datasets, pass, behaviour,
                   firstRun>>

\* variant: a failed listing marks the phase as failed
SchedStatusFailedOnListing ==
    IF "refresh_schedules" \in listFailed THEN "failed" ELSE sresults.status

\* results["status"] as returned: "completed", whatever the listing did
SchedFinalStatus == sresults.status

\* restore_refresh_schedules returns its results
SchedReturn ==
    /\ pc = "s_entry"
    /\ sidx = Len(schedules) + 1
    /\ events' = Append(events, EndEvent("refresh_schedules"))
    /\ IF pass = 0
       THEN /\ ret' = Returned(SchedFinalStatus, FALSE, "results")
            /\ pc' = "commit"
       ELSE /\ ret' = ret
            /\ pc' = "s_done"
    /\ UNCHANGED <<inputVars, schedVars, jobVars, itemVars,
                   listFailed, cur, job,
                   orchVars, phaseVars, remoteVars, raised, schedArg,
                   itemLog>>

\* the phase is run a second time with the same entries and mapping
SchedRerun ==
    /\ pc = "s_done"
    /\ pass = 1
    /\ firstRun' = [results |-> sresults, log |-> updateLog]
    /\ pass' = 2
    /\ pc' = "s_call"
    /\ UNCHANGED <<inputVars, jobVars, itemVars,
                   listFailed, cur, job, orchVars, ret,
                   phaseVars, remoteVars, events, raised, schedArg, itemLog,
                   schedules, datasets, sidx, sresults, behaviour, updateLog>>

----------------------------------------------------------------------------
(* Specifications.                                                         *)

Next ==
    \/ RestoreComponentsHandler
    \/ CreateRestoreHandler
    \/ LoadManifest
    \/ ManifestError
    \/ SkipPhase
    \/ ReportsDirMissing
    \/ RpGlobFails
    \/ RpNoFiles
    \/ RpBegin
    \/ RpImport
    \/ RpLookup
    \/ Materialise
    \/ CommitReports
    \/ InvokePhase
    \/ SchedBegin
    \/ SchedEntry
    \/ SchedReturn
    \/ CommitPhase
    \/ LegacyExtractMapping
    \/ Finish

Spec == Init /\ [][Next]_vars

\* runs of restore_components that restore the reports only, over a larger
\* choice of directories and target workspaces
InitReports ==
    /\ entry = "restore_components"
    /\ selected = {"reports"}
    /\ manifest = "ok"
    /\ reports_dir = TRUE
    /\ files \in FileLists(StemPool, MaxFiles)
    /\ remote \in TargetLists(TargetPool, MaxTarget)
    /\ schedules = <<>>
    /\ pass = 0
    /\ behaviour = NoBehaviour
    /\ InitJobsIdle
    /\ InitItemsIdle
    /\ InitRun

NextReports ==
    \/ RestoreComponentsHandler
    \/ LoadManifest
    \/ SkipPhase
    \/ RpGlobFails
    \/ RpNoFiles
    \/ RpBegin
    \/ RpImport
    \/ RpLookup
    \/ Materialise
    \/ CommitReports
    \/ Finish

SpecReports == InitReports /\ [][NextReports]_vars

\* two direct calls of restore_refresh_schedules, one after the other, with
\* the same entries and mapping, against a service that answers the same
InitSchedules ==
    /\ entry = "restore_components"
    /\ selected = {"refresh_schedules"}
    /\ manifest = "ok"
    /\ reports_dir = FALSE
    /\ files = <<>>
    /\ remote \in TargetLists(OrchTargetPool, MaxTarget)
    /\ schedules \in SeqsUpTo(SchedEntryPool, MaxSched)
    /\ dataset_id_mapping \in SchedMappings
    /\ pass = 1
    /\ behaviour \in [listOK : BOOLEAN,
                      status : [IdsOf(remote, dataset_id_mapping)
                                   -> UpdateOutcomes]]
    /\ InitJobsIdle
    /\ InitItemsIdle
    /\ pc = "s_call"
    /\ cur = 1
    /\ job = "none"
    /\ components = EmptyMap
    /\ summary = [total_components |-> 0, successful |-> 0, failed |-> 0]
    /\ ret = NoRet
    /\ idx = 0
    /\ existing_datasets = {}
    /\ final_dataset_name = NoName
    /\ new_dataset_id = Unbound
    /\ results = NoResults
    /\ pending = <<>>
    /\ nextId = Len(remote) + 1
    /\ events = <<>>
    /\ raised = {}
    /\ schedArg = [passed |-> FALSE, mapping |-> EmptyMap]
    /\ itemLog = <<>>
    /\ datasets = EmptyMap
    /\ sidx = 0
    /\ sresults = NoSchedResults
    /\ firstRun = NoFirstRun
    /\ updateLog = <<>>
    /\ listFailed = {}

NextSchedules ==
    \/ SchedBegin
    \/ SchedEntry
    \/ SchedReturn
    \/ SchedRerun

SpecSchedules == InitSchedules /\ [][NextSchedules]_vars

----------------------------------------------------------------------------
(* The job registry backup_jobs under concurrent requests.                  *)

RequestKinds == {"create_backup", "create_restore", "restore_components"}
\* workspace names after create_backup's sanitising
WorkspaceNames == {"sales", "hr"}
NoJob == <<"none", 0>>

\* backup_id = f"{workspace_name}_{timestamp}", the timestamp in seconds
BackupId(workspace_name, now) == <<workspace_name, now>>
\* str(uuid.uuid4()): a value never handed out before
RestoreId(n) == <<"uuid", n>>

\* backup_jobs[job_id] = {"status": status, ...} executed by request r
WriteJob(r, job_id, status) ==
    /\ backup_jobs' = Put(backup_jobs, job_id, status)
    /\ writes' = Append(writes, [id |-> job_id, run |-> r])

\* everything but the registry, the requests and the clock
RunVars == <<inputVars, schedVars, itemVars, listFailed, pc, cur, job,
             orchVars, ret, phaseVars, remoteVars, events, raised, schedArg,
             itemLog>>

\* the wall clock passes into the next second
Tick ==
    /\ clock < MaxClock
    /\ clock' = clock + 1
    /\ UNCHANGED <<RunVars, backup_jobs, req, uuids, writes>>

\* create_backup: the id is built from the workspace name and the current
\* second, the task is scheduled and the entry is written as in_progress
CreateBackupHandler ==
    /\ \E r \in 1..Len(req) :
         /\ req[r].kind = "create_backup"
         /\ req[r].at = "new"
         /\ LET backup_id == BackupId(req[r].workspace_name, clock)
            IN  /\ WriteJob(r, backup_id, "in_progress")
                /\ req' = [req EXCEPT ![r].at = "running",
                                      ![r].id = backup_id]
    /\ UNCHANGED <<RunVars, clock, uuids>>

\* create_restore / restore_components: a fresh uuid is the job id, the
\* task is scheduled and the entry is written as in_progress
RestoreRequestHandler ==
    /\ \E r \in 1..Len(req) :
         /\ req[r].kind \in {"create_restore", "restore_components"}
         /\ req[r].at = "new"
         /\ LET restore_id == RestoreId(uuids + 1)
            IN  /\ WriteJob(r, restore_id, "in_progress")
                /\ req' = [req EXCEPT ![r].at = "running",
                                      ![r].id = restore_id]
    /\ uuids' = uuids + 1
    /\ UNCHANGED <<RunVars, clock>>

\* run_backup / run_restore / run_unified_restore ends: the entry of the
\* id the closure captured is written as completed or failed
BackgroundTaskEnds ==
    /\ \E r \in 1..Len(req), status \in {"completed", "failed"} :
         /\ req[r].at = "running"
         /\ WriteJob(r, req[r].id, status)
         /\ req' = [req EXCEPT ![r].at = "finished"]
    /\ UNCHANGED <<RunVars, clock, uuids>>

\* requests arriving at any time, in any order
InitJobs ==
    /\ entry = "restore_components"
    /\ selected = Phases
    /\ manifest = "ok"
    /\ reports_dir = FALSE
    /\ files = <<>>
    /\ remote = <<>>
    /\ schedules = <<>>
    /\ pass = 0
    /\ behaviour = NoBehaviour
    /\ InitRun
    /\ InitItemsIdle
    /\ backup_jobs = EmptyMap
    /\ req \in [1..MaxRequests ->
                 [kind : RequestKinds, workspace_name : WorkspaceNames,
                  at : {"new"}, id : {NoJob}]]
    /\ clock = 0
    /\ uuids = 0
    /\ writes = <<>>

NextJobs ==
    \/ Tick
    \/ CreateBackupHandler
    \/ RestoreRequestHandler
    \/ BackgroundTaskEnds

SpecJobs == InitJobs /\ [][NextJobs]_vars

----------------------------------------------------------------------------
(* The item executors: restore_datasets, restore_dataflows,                *)
(* restore_dashboards and restore_apps, called on a list of entries.       *)

ItemKinds == {"datasets", "dataflows", "dashboards", "apps"}

\* one entry of a section of the manifest: whether it has an id, whether it
\* has parameters and gateway connections (datasets), and whether one of
\* its nested fields has a type the executor cannot handle
ItemEntry(name, has_id, parameters, gateway_connections, broken) ==
    [name |-> name, has_id |-> has_id, parameters |-> parameters,
     gateway_connections |-> gateway_connections, broken |-> broken]

ItemPool ==
    {ItemEntry(NameA, TRUE, FALSE, FALSE, FALSE),
     ItemEntry(NameA, TRUE, TRUE, TRUE, FALSE),
     ItemEntry(NameA, FALSE, TRUE, FALSE, FALSE),
     ItemEntry(NameA, TRUE, TRUE, FALSE, TRUE),
     ItemEntry(NameB, TRUE, TRUE, FALSE, FALSE),
     ItemEntry(NameB, FALSE, FALSE, FALSE, FALSE)}

\* results = {...} at the start of each executor
InitItemResults(kind, list) ==
    [status |-> ExecStatus(kind), restored |-> 0, failed |-> 0,
     manual_recreation_required |-> 0,
     total |-> IF kind \in {"dashboards", "apps"} THEN Len(list) ELSE 0,
     details |-> <<>>]

\* the detail records the executors append
DocumentedDetail(name, type) ==
    [name |-> name, type |-> type, status |-> "documented"]
ItemFailedDetail(name) ==
    [name |-> name, type |-> "none", status |-> "failed"]
GuidanceDetail(name) ==
    [name |-> name, type |-> "none", status |-> "requires_manual_recreation"]
ItemErrorDetail(name) ==
    [name |-> name, type |-> "none", status |-> "error"]

\* restore_datasets, one iteration: an entry without id is passed over
\* (continue); len() of a parameters value that has no length raises and the
\* except block records the item as failed; otherwise one record is
\* appended for the parameters and one for the gateway connections, where
\* the entry has them, and the entry is counted as restored
DatasetStep(res, item) ==
    IF ~item.has_id THEN res
    ELSE IF item.broken
    THEN [res EXCEPT !.failed = @ + 1,
                     !.details = Append(@, ItemFailedDetail(item.name))]
    ELSE LET p == IF item.parameters
                  THEN <<DocumentedDetail(item.name, "parameters")>>
                  ELSE <<>>
             g == IF item.gateway_connections
                  THEN <<DocumentedDetail(item.name, "gateway_connections")>>
                  ELSE <<>>
         IN  [res EXCEPT !.restored = @ + 1,
                         !.details = @ \o p \o g]

\* restore_dataflows / restore_dashboards / restore_apps, one iteration:
\* one "requires_manual_recreation" record, or one "error" record when
\* reading the entry raises
GuidanceStep(res, kind, item) ==
    IF item.broken
    THEN [res EXCEPT !.details = Append(@, ItemErrorDetail(item.name))]
    ELSE [res EXCEPT
            !.manual_recreation_required =
                IF kind = "dataflows" THEN @ + 1 ELSE @,
            !.details = Append(@, GuidanceDetail(item.name))]

\* everything but the item executor's state and the position
ItemFrame == <<inputVars, schedVars, jobVars, listFailed, cur, job, orchVars,
               ret, phaseVars, remoteVars, events, raised, schedArg, itemLog>>

\* the executor starts: fresh results
ItemsBegin ==
    /\ pc = "i_call"
    /\ iresults' = InitItemResults(ikind, items)
    /\ iidx' = 1
    /\ pc' = "i_loop"
    /\ UNCHANGED <<ItemFrame, ikind, items>>

\* one iteration of the executor's loop
ItemStep ==
    /\ pc = "i_loop"
    /\ iidx <= Len(items)
    /\ iresults' = IF ikind = "datasets"
                   THEN DatasetStep(iresults, items[iidx])
                   ELSE GuidanceStep(iresults, ikind, items[iidx])
    /\ iidx' = iidx + 1
    /\ UNCHANGED <<ItemFrame, pc, ikind, items>>

\* the executor returns its results
ItemsReturn ==
    /\ pc = "i_loop"
    /\ iidx = Len(items) + 1
    /\ pc' = "i_done"
    /\ UNCHANGED <<ItemFrame, itemVars>>

\* a direct call of one of the item executors on a list of entries
InitItems ==
    /\ entry = "restore_components"
    /\ selected = ItemKinds
    /\ manifest = "ok"
    /\ reports_dir = FALSE
    /\ files = <<>>
    /\ remote \in TargetLists(OrchTargetPool, MaxTarget)
    /\ schedules = <<>>
    /\ pass = 0
    /\ behaviour = NoBehaviour
    /\ InitJobsIdle
    /\ pc = "i_call"
    /\ cur = 1
    /\ job = "none"
    /\ components = EmptyMap
    /\ summary = [total_components |-> 0, successful |-> 0, failed |-> 0]
    /\ dataset_id_mapping \in SchedMappings
    /\ ret = NoRet
    /\ idx = 0
    /\ existing_datasets = {}
    /\ final_dataset_name = NoName
    /\ new_dataset_id = Unbound
    /\ results = NoResults
    /\ pending = <<>>
    /\ nextId = Len(remote) + 1
    /\ events = <<>>
    /\ raised = {}
    /\ schedArg = [passed |-> FALSE, mapping |-> EmptyMap]
    /\ itemLog = <<>>
    /\ datasets = EmptyMap
    /\ sidx = 0
    /\ sresults = NoSchedResults
    /\ firstRun = NoFirstRun
    /\ updateLog = <<>>
    /\ listFailed = {}
    /\ ikind \in ItemKinds
    /\ items \in SeqsUpTo(ItemPool, MaxItems)
    /\ iidx = 0
    /\ iresults = NoItemResults

NextItems ==
    \/ ItemsBegin
    \/ ItemStep
    \/ ItemsReturn

SpecItems == InitItems /\ [][NextItems]_vars

\* the selections of components the runs under fair scheduling start with
LiveSelections ==
    {{"reports"}, {"datasets", "apps"}, Phases}

\* a restore request of either kind whose background task is scheduled by
\* the event loop: every step of the task that can be taken is eventually
\* taken (each awaited call returns or raises)
InitLive ==
    /\ entry \in {"restore_components", "create_restore"}
    /\ selected \in IF Unified THEN LiveSelections ELSE {Phases}
    /\ manifest \in {"ok", "missing", "unparsable"}
    /\ reports_dir \in BOOLEAN
    /\ files \in IF reports_dir THEN FileLists(OrchStemPool, OrchMaxFiles)
                 ELSE {<<>>}
    /\ remote \in TargetLists(OrchTargetPool, OrchMaxFiles)
    /\ schedules \in IF "refresh_schedules" \in selected THEN OrchSchedLists
                     ELSE {<<>>}
    /\ pass = 0
    /\ behaviour = NoBehaviour
    /\ InitJobsIdle
    /\ InitItemsIdle
    /\ InitRun

SpecLive == InitLive /\ [][Next]_vars /\ WF_vars(Next)

----------------------------------------------------------------------------
(* Properties of the orchestrators (specification Spec).                   *)

Invoked(p) == \E i \in 1..Len(events) : events[i] = StartEvent(p)

\* C1: a phase whose executor raised is recorded with status "failed" and an
\* error text, every selected phase is still invoked, and a run that got
\* past loading the manifest is never aborted: it ends with job status
\* "completed".
C1_PhaseIsolation ==
    /\ \A p \in raised :
         /\ p \in DOMAIN components =>
               components[p].status = "failed" /\ components[p].error
         /\ p \notin DOMAIN components => pc = "commit" /\ CurPhase = p
    /\ pc = "aborted" => manifest # "ok"
    /\ job = "failed" => manifest # "ok"
    /\ pc = "done" =>
         /\ job = "completed"
         /\ \A p \in selected :
              Invoked(p) \/ (p = "reports" /\ Unified /\ ~reports_dir)

C1_Witness ==
    /\ pc = "done"
    /\ {"datasets", "dashboards"} \subseteq raised
    /\ "apps" \in selected \ raised
    /\ components["datasets"].status = "failed"
    /\ components["apps"].status = "documented"

\* the fixed order of the phases
ClaimedOrder == <<"reports", "datasets", "refresh_schedules",
                  "dashboards", "dataflows", "apps">>
OrderIndex(p) == CHOOSE i \in 1..Len(ClaimedOrder) : ClaimedOrder[i] = p

\* C2: executor calls never overlap (a call starts only after the previous
\* one has ended) and they happen in the order Reports, Datasets,
\* RefreshSchedules, Dashboards, Dataflows, Apps.
C2_SequentialOrder ==
    \A i \in 1..Len(events) :
      /\ events[i].kind = "start" =>
           /\ i = 1 \/ events[i - 1].kind = "end"
           /\ \A j \in 1..(i - 1) :
                OrderIndex(events[j].phase) < OrderIndex(events[i].phase)
      /\ events[i].kind = "end" =>
           /\ i > 1
           /\ events[i - 1] = StartEvent(events[i].phase)

C2_Witness ==
    /\ pc = "done"
    /\ Unified
    /\ Len(events) = 2 * Len(ClaimedOrder)
    /\ Len(itemLog) > 0

\* the entries the Reports phase stored, read off the history of its items
StoredByReports ==
    {<<itemLog[i].stem, FindDatasetId(itemLog[i].listing, itemLog[i].resolved)>> :
        i \in {k \in 1..Len(itemLog) :
                 /\ itemLog[k].lookup = "ok"
                 /\ \E j \in 1..Len(itemLog[k].listing) :
                      itemLog[k].listing[j].name = itemLog[k].resolved}}

ReportsProduced ==
    /\ Unified
    /\ "reports" \in DOMAIN components
    /\ components["reports"].body = "results"
    /\ components["reports"].status # "failed"

\* C3: the mapping handed to the RefreshSchedules executor is exactly the
\* mapping the Reports phase produced in this run, and it is empty when the
\* Reports phase did not run or failed.
C3_MappingThreaded ==
    schedArg.passed =>
      /\ ReportsProduced =>
           /\ schedArg.mapping = results.dataset_id_mapping
           /\ {<<n, schedArg.mapping[n]>> : n \in DOMAIN schedArg.mapping}
                 = StoredByReports
      /\ ~ReportsProduced => schedArg.mapping = EmptyMap

C3_Witness ==
    /\ schedArg.passed
    /\ ReportsProduced
    /\ NameA \in DOMAIN schedArg.mapping
    /\ pc = "done"

\* C4: only selected phases are invoked, the report never holds an entry of
\* an unselected phase, and the final report holds an entry for exactly the
\* selected phases.
C4_OnlySelected ==
    /\ DOMAIN components \subseteq selected
    /\ \A i \in 1..Len(events) : events[i].phase \in selected
    /\ pc = "done" => DOMAIN components = selected

C4_Witness ==
    /\ pc = "done"
    /\ Unified
    /\ selected = {"reports", "dashboards"}
    /\ DOMAIN components = {"reports", "dashboards"}

----------------------------------------------------------------------------
(* Properties of the Reports phase (specification SpecReports).            *)

\* restore_reports_pbix has gone through its loop and returned
PhaseCompleted == results.status = "completed" /\ pc \in {"commit", "phase", "done"}

\* the item of itemLog[i] has been fully processed
Processed(i) == i < Len(itemLog) \/ pc # "rp_lookup"

\* C5: whatever subset of items raises or is rejected, every item is
\* attempted, has exactly one detail record, and is counted exactly once:
\* imported + failed = N.
C5_ItemAccounting ==
    PhaseCompleted =>
      /\ Len(itemLog) = Len(files)
      /\ Len(results.details) = Len(files)
      /\ \A i \in 1..Len(files) : results.details[i].file = files[i]
      /\ results.imported + results.failed = Len(files)

\* smallest k >= from such that name_k is not taken
RECURSIVE SmallestFree(_, _, _)
SmallestFree(name, taken, from) ==
    IF Suffixed(name, from) \in taken
    THEN SmallestFree(name, taken, from + 1)
    ELSE from

\* the duplicate-name rule as stated: _2, _3, ... until unique
ClaimedResolve(name, taken) ==
    IF name \in taken THEN Suffixed(name, SmallestFree(name, taken, 2))
    ELSE name

\* C6: the resolved name of an item is its derived name when that is not
\* taken, and otherwise N_k for the smallest k >= 2 with N_k not taken
\* (target {"A","A_2"}, import "A": "A_3").
C6_DuplicateRule ==
    \A i \in 1..Len(itemLog) :
      itemLog[i].resolved = ClaimedResolve(itemLog[i].stem, itemLog[i].taken)

\* C7: two reports that both derive (sanitise to) the same name S against
\* an empty target resolve to S and S_2, with duplicate_handled = 1 and one
\* mapping entry per report when both lookups find their dataset.
C7_SameDerivedName ==
    ( /\ PhaseCompleted
      /\ Len(files) = 2
      /\ Sanitize(files[1]) = Sanitize(files[2])
      /\ itemLog[1].taken = {}
      /\ \A i \in 1..2 : itemLog[i].accepted /\ itemLog[i].lookup = "ok" )
    =>
      /\ itemLog[1].resolved = Sanitize(files[1])
      /\ itemLog[2].resolved = Suffixed(Sanitize(files[1]), 2)
      /\ results.duplicate_handled = 1
      /\ (\A i \in 1..2 : results.details[i].new_dataset_id # NoId)
            => Cardinality(DOMAIN results.dataset_id_mapping) = 2

\* C8: the display name of every import request that is sent equals the
\* resolved name the phase computed for the item.
C8_SentNameIsResolved ==
    \A i \in 1..Len(itemLog) :
      itemLog[i].sent => itemLog[i].display = itemLog[i].resolved

\* C9: the mapping has an entry for a source name exactly when the item's
\* import was accepted and the dataset list queried right after it listed a
\* dataset under the item's resolved name; the value is such a dataset's id.
C9_MappingEntries ==
    \A i \in 1..Len(itemLog) :
      Processed(i) =>
        LET it == itemLog[i]
            matches == {j \in 1..Len(it.listing) :
                           it.listing[j].name = it.resolved}
        IN  /\ it.stem \in DOMAIN results.dataset_id_mapping
                 <=> (it.accepted /\ it.lookup = "ok" /\ matches # {})
            /\ it.stem \in DOMAIN results.dataset_id_mapping =>
                 \E j \in matches :
                    it.listing[j].id = results.dataset_id_mapping[it.stem]

C9_Witness ==
    /\ pc = "done"
    /\ Len(itemLog) = 2
    /\ itemLog[1].accepted /\ itemLog[1].lookup = "ok"
    /\ itemLog[1].stem \notin DOMAIN results.dataset_id_mapping
    /\ itemLog[2].stem \in DOMAIN results.dataset_id_mapping
    /\ Len(itemLog[2].listing) > 1

\* C10: an item whose import was accepted is recorded as "imported"
\* whether the post-import lookup finds the dataset, finds nothing or fails.
C10_AcceptedIsImported ==
    PhaseCompleted =>
      \A i \in 1..Len(itemLog) :
        itemLog[i].accepted =>
          /\ results.details[i].status = "imported"
          /\ results.details[i].file = itemLog[i].stem

----------------------------------------------------------------------------
(* Properties of the RefreshSchedules phase (specification SpecSchedules). *)

\* entries of the current call that have been processed (between two
\* calls sresults still holds what the first call returned)
SchedProcessed == IF pc = "s_call" THEN {} ELSE 1..Len(sresults.details)
\* the update requests of the current call for entry i
RequestsFor(i) ==
    {k \in 1..Len(updateLog) :
        updateLog[k].pass = pass /\ updateLog[k].entry = i}
CountStatus(details, st) ==
    Cardinality({i \in 1..Len(details) : details[i].status = st})
\* ids of the datasets of that name in the list the call obtained
ListedIds(name) ==
    IF behaviour.listOK
    THEN {remote[k].id : k \in {j \in 1..Len(remote) : remote[j].name = name}}
    ELSE {}

\* the schedule of entry i is a dictionary (the record of an entry whose
\* processing raised names no dataset id)
HasSchedule(i) == ~schedules[i].schedule.null

\* C11: an entry's target dataset is the mapping's id for its name when the
\* mapping has the name, else the id of the same-named dataset in the
\* target's list; an entry that resolves through neither is recorded as
\* skipped, counted in skipped and not in failed, and no update request is
\* made for it
C11_Resolution ==
    /\ \A i \in SchedProcessed :
         LET d == sresults.details[i]
             name == schedules[i].dataset_name
         IN  /\ d.dataset = name
             /\ name \in DOMAIN dataset_id_mapping =>
                  /\ d.status # "skipped"
                  /\ HasSchedule(i) =>
                       d.dataset_id = dataset_id_mapping[name]
             /\ name \notin DOMAIN dataset_id_mapping /\ ListedIds(name) # {} =>
                  /\ d.status # "skipped"
                  /\ HasSchedule(i) => d.dataset_id \in ListedIds(name)
             /\ name \notin DOMAIN dataset_id_mapping /\ ListedIds(name) = {} =>
                  /\ d.status = "skipped"
                  /\ RequestsFor(i) = {}
             /\ \A k \in RequestsFor(i) :
                  updateLog[k].dataset_id = d.dataset_id
    /\ sresults.skipped = CountStatus(sresults.details, "skipped")
    /\ sresults.failed = CountStatus(sresults.details, "failed")

\* a call in which the mapping took precedence over a listed dataset of the
\* same name, and another entry was skipped
C11_Witness ==
    /\ pc = "s_done"
    /\ behaviour.listOK
    /\ \E i \in SchedProcessed :
         /\ sresults.details[i].dataset_id = MappedId
         /\ ListedIds(schedules[i].dataset_name) # {}
         /\ RequestsFor(i) # {}
    /\ \E j \in SchedProcessed : sresults.details[j].status = "skipped"

\* the schedule of entry i has nothing to push
NothingToPush(i) ==
    LET c == schedules[i].schedule
    IN  ~c.null /\ (~c.enabled \/ c.days = <<>> \/ c.times = <<>>)

\* C12: for an entry whose schedule is disabled, or enabled with no days or
\* no times, no schedule-update request is sent and the entry is never
\* recorded as failed: when its dataset resolves it is recorded as a
\* success ("configured")
C12_NoOpRule ==
    \A i \in SchedProcessed :
      NothingToPush(i) =>
        /\ RequestsFor(i) = {}
        /\ sresults.details[i].status # "failed"
        /\ sresults.details[i].dataset_id # NoId =>
             /\ sresults.details[i].status = "configured"
             /\ sresults.details[i].api_call = "successful"

\* a call that processed a resolved entry enabled without days and a
\* resolved disabled entry
C12_Witness ==
    /\ pc = "s_done"
    /\ \E i \in SchedProcessed :
         /\ HasSchedule(i)
         /\ schedules[i].schedule.enabled
         /\ schedules[i].schedule.days = <<>>
         /\ schedules[i].schedule.times # <<>>
         /\ sresults.details[i].status = "configured"
    /\ \E j \in SchedProcessed :
         /\ HasSchedule(j)
         /\ ~schedules[j].schedule.enabled
         /\ sresults.details[j].status = "configured"

\* C13: an entry for which no schedule update is pushed is not counted in
\* restored; in particular, after the single entry (enabled, no days, one
\* time) the call reports restored = 0 and skipped = 0 with status
\* "completed" and has sent no update request
C13_NoOpNotRestored ==
    /\ sresults.restored <=
         Cardinality({i \in SchedProcessed : RequestsFor(i) # {}})
    /\ pc = "s_done" /\ schedules = <<ScheduleEntry(NameA, TRUE, <<>>, OneAM)>> =>
         /\ sresults.restored = 0
         /\ sresults.skipped = 0
         /\ sresults.status = "completed"
         /\ \A k \in 1..Len(updateLog) : updateLog[k].pass # pass

\* the schedule of entry i is enabled and has days and times
Pushable(i) ==
    LET c == schedules[i].schedule
    IN  ~c.null /\ c.enabled /\ c.days # <<>> /\ c.times # <<>>

\* C14: for a resolved entry whose schedule is enabled with days and times,
\* exactly one update request is sent, for the resolved dataset id, carrying
\* the backup's days, times, time zone and notify option with enabled =
\* true; the entry is recorded as restored when the answer is 200, 201 or
\* 202, and as failed with an error text on any other answer or on none
C14_OneUpdatePerEntry ==
    /\ \A i \in SchedProcessed :
         LET d == sresults.details[i]
             c == schedules[i].schedule
         IN  Pushable(i) /\ d.status # "skipped" =>
               /\ Cardinality(RequestsFor(i)) = 1
               /\ \A k \in RequestsFor(i) :
                    /\ updateLog[k].dataset_id = d.dataset_id
                    /\ updateLog[k].payload =
                         [days |-> c.days, times |-> c.times,
                          enabled |-> TRUE,
                          localTimeZoneId |-> c.localTimeZoneId,
                          notifyOption |-> c.notifyOption]
                    /\ updateLog[k].status \in {200, 201, 202} =>
                         d.status = "configured"
                    /\ updateLog[k].status \notin {200, 201, 202} =>
                         d.status = "failed" /\ d.error # "none"
    /\ sresults.restored = CountStatus(sresults.details, "configured")
    /\ sresults.failed = CountStatus(sresults.details, "failed")

\* a call that sent one request answered 201 and one that got no answer
C14_Witness ==
    /\ pc = "s_done"
    /\ \E k \in 1..Len(updateLog) :
         updateLog[k].pass = pass /\ updateLog[k].status = 201
    /\ \E k \in 1..Len(updateLog) :
         updateLog[k].pass = pass /\ updateLog[k].status = NoResponse
    /\ sresults.restored = 1
    /\ sresults.failed = 1

\* the update requests of call n, in order
RequestsOfPass(n) ==
    LET q == SelectSeq(updateLog, LAMBDA r : r.pass = n)
    IN  [k \in 1..Len(q) |-> [q[k] EXCEPT !.pass = 0]]

\* C15: a second call of the phase with the same entries and mapping, on
\* the same target answering the same way, returns the same counters and
\* the same per-entry outcomes as the first and makes the same requests;
\* an entry with nothing to push is a success without request both times
C15_Idempotent ==
    pc = "s_done" /\ pass = 2 =>
      /\ sresults = firstRun.results
      /\ RequestsOfPass(2) = RequestsOfPass(1)
      /\ \A i \in SchedProcessed :
           NothingToPush(i) /\ sresults.details[i].status # "skipped" =>
             /\ sresults.details[i].status = "configured"
             /\ firstRun.results.details[i].status = "configured"
             /\ \A k \in 1..Len(updateLog) : updateLog[k].entry # i

\* the second call has returned after an entry that was pushed, an entry
\* that was rejected or skipped, and an entry with nothing to push
C15_Witness ==
    /\ pc = "s_done"
    /\ pass = 2
    /\ Len(RequestsOfPass(2)) >= 1
    /\ sresults.restored >= 1
    /\ \E i \in SchedProcessed :
         NothingToPush(i) /\ sresults.details[i].status = "configured"
    /\ \E j \in SchedProcessed : Pushable(j)

----------------------------------------------------------------------------
(* Further properties of the orchestrators (specification Spec).           *)

\* the selected phases after p have been run and recorded
LaterPhasesRan(p) ==
    \A q \in selected :
      OrderIndex(q) > OrderIndex(p) => Invoked(q) /\ q \in DOMAIN components

\* C16 as stated: a phase in which the dataset-listing call failed ends
\* with status "failed" in the report, and the selected phases after it are
\* still run
C16_ListingFailureFailsPhase ==
    /\ \A p \in listFailed :
         p \in DOMAIN components => components[p].status = "failed"
    /\ pc = "done" => \A p \in listFailed : LaterPhasesRan(p)

\* C16, amended: a failing dataset-listing call is caught inside the phase
\* (Reports goes on with no taken names, RefreshSchedules with the mapping
\* in place of the list); unless the executor raises for another reason the
\* phase ends with status "completed", and the selected phases after it
\* are still run
C16_ListingFailureTolerated ==
    /\ \A p \in listFailed \ raised :
         p \in DOMAIN components => components[p].status = "completed"
    /\ pc = "done" => \A p \in listFailed : LaterPhasesRan(p)

\* a finished run in which the listing failed in both phases and both are
\* recorded as completed
C16_Witness ==
    /\ pc = "done"
    /\ listFailed = {"reports", "refresh_schedules"}
    /\ raised \cap listFailed = {}
    /\ components["reports"].status = "completed"
    /\ components["refresh_schedules"].status = "completed"
    /\ Invoked("apps")

\* C17: when the manifest is missing or cannot be parsed, no phase executor
\* is called, no import and no schedule update is requested, nothing is
\* written to the report, and the run ends as a failure: the request is
\* rejected, or the job is recorded as failed
C17_ManifestErrorFatal ==
    manifest # "ok" =>
      /\ events = <<>>
      /\ itemLog = <<>>
      /\ pending = <<>>
      /\ updateLog = <<>>
      /\ components = EmptyMap
      /\ pc \in {"request", "task", "rejected", "aborted"}
      /\ job # "completed"
      /\ pc = "aborted" => job = "failed"

\* a run with phases selected whose manifest could not be parsed has ended
C17_Witness ==
    /\ manifest = "unparsable"
    /\ "reports" \in selected
    /\ "refresh_schedules" \in selected
    /\ pc = "aborted"
    /\ job = "failed"

\* C18: the report holds for a phase either no entry or the phase's final
\* result: an entry is written only when the phase's executor has returned
\* or its failure was caught, and once written it is never replaced or
\* removed in the same run
C18_CommittedOnce ==
    [][\A p \in DOMAIN components :
          p \in DOMAIN components' /\ components'[p] = components[p]]_vars

\* the Reports phase of the run has returned
ReportsReturned ==
    \/ cur > 1
    \/ pc \in {"commit", "extract"} /\ CurPhase = "reports"

\* C20: once the Reports phase has returned, the mapping it produced is not
\* changed any more, and once the Reports block is over the orchestrator's
\* mapping is not changed by any later phase, RefreshSchedules and its
\* fallback after a failed listing included
C20_MappingFrozen ==
    [][/\ ReportsReturned =>
            results'.dataset_id_mapping = results.dataset_id_mapping
       /\ cur > 1 => dataset_id_mapping' = dataset_id_mapping]_vars

\* a finished run in which Reports produced a mapping and RefreshSchedules
\* worked on it in place of the list it could not fetch
C20_Witness ==
    /\ pc = "done"
    /\ dataset_id_mapping # EmptyMap
    /\ "refresh_schedules" \in listFailed
    /\ datasets = dataset_id_mapping
    /\ sresults.restored = 1

\* C27: when a unified restore has completed, the phases counted as
\* successful and the phases counted as failed add up to the number of
\* selected components.
C27_SummaryAddsUp ==
    (pc = "done" /\ Unified) =>
        summary.successful + summary.failed = summary.total_components

\* the phases whose stored result is neither failed nor skipped
NonFailedPhases ==
    {p \in DOMAIN components :
        components[p].status \notin {"failed", "skipped"}}

\* C28: when a unified restore has completed, not more phases are counted
\* as successful than have a stored result that is neither "failed" nor
\* "skipped".
C28_SuccessfulMeansNotFailed ==
    (pc = "done" /\ Unified) =>
        summary.successful <= Cardinality(NonFailedPhases)

\* C29: in restore_all_components, once the Reports block is over, the
\* entry of the Reports phase is "failed" only if restore_reports raised;
\* if it returned, the entry is the value it returned.
C29_ReportsFailedOnlyWhenRaised ==
    (~Unified /\ cur > 1 /\ "reports" \in DOMAIN components) =>
        /\ components["reports"].status = "failed" => "reports" \in raised
        /\ "reports" \notin raised =>
              components["reports"].body = ExecBody("reports")

----------------------------------------------------------------------------
(* Properties of the job registry (specification SpecJobs).                *)

\* C19: every registry entry is written by one request only, the one whose
\* run owns the job id: no run creates, overwrites or changes the entry of
\* another run
C19_RegistryIsolation ==
    \A i, j \in 1..Len(writes) :
      writes[i].id = writes[j].id => writes[i].run = writes[j].run

TerminalStatus == {"completed", "failed"}

\* C26: the status of a registry entry only moves from "in_progress" to
\* "completed" or "failed": an entry that is terminal is never written
\* again, neither by a late initial "in_progress" write nor by a task.
C26_StatusMonotone ==
    [][\A id \in DOMAIN backup_jobs :
          backup_jobs[id] \in TerminalStatus =>
              /\ id \in DOMAIN backup_jobs'
              /\ backup_jobs'[id] = backup_jobs[id]]_vars

----------------------------------------------------------------------------
(* Further properties of the Reports phase (specification SpecReports).    *)

\* names the phase added locally before it came to item i
ImportedBefore(i) ==
    {itemLog[j].resolved :
        j \in {k \in 1..(i - 1) : /\ k <= Len(results.details)
                                  /\ results.details[k].status = "imported"}}

\* C21: in one invocation the names used to detect collisions are fetched
\* once, before the first item: no further get_datasets call is made for a
\* collision check while an item is processed, and the check for a later
\* item uses the fetched names plus the names resolved in this invocation
C21_NamesFetchedOnce ==
    /\ \A i \in 1..Len(itemLog) : ~itemLog[i].fetched
    /\ \A i \in 2..Len(itemLog) :
         itemLog[i].taken = itemLog[1].taken \cup ImportedBefore(i)

\* C22: on a bundle without *.pbix files the Reports phase returns at once
\* with status "completed", all counters zero, no detail record and an
\* empty mapping, and it has made no remote call: no listing, no import
C22_EmptyBundle ==
    files = <<>> /\ results.status # "none" /\ ~results.error =>
      /\ results = [InitResults EXCEPT !.status = "completed"]
      /\ results.imported = 0 /\ results.failed = 0
      /\ results.duplicate_handled = 0
      /\ results.details = <<>>
      /\ results.dataset_id_mapping = EmptyMap
      /\ existing_datasets = {}
      /\ listFailed = {}
      /\ itemLog = <<>>
      /\ pending = <<>>
      /\ events = <<StartEvent("reports"), EndEvent("reports")>>
      /\ "reports" \in DOMAIN components =>
           /\ components["reports"].status = "completed"
           /\ dataset_id_mapping = EmptyMap

\* a finished run on an empty bundle against a workspace that holds datasets
C22_Witness ==
    /\ pc = "done"
    /\ files = <<>>
    /\ remote # <<>>
    /\ components["reports"].status = "completed"

----------------------------------------------------------------------------
(* Properties of the item executors (specification SpecItems).             *)

\* the detail records of the entry called name that report a problem
ProblemRecords(name) ==
    {k \in 1..Len(iresults.details) :
        /\ iresults.details[k].name = name
        /\ iresults.details[k].status \in {"failed", "error"}}

\* C23: when restore_datasets has returned, every entry without an id has a
\* failure record in the details, and every entry of the input is counted
\* as restored or as failed.
C23_MissingIdRecorded ==
    (pc = "i_done" /\ ikind = "datasets") =>
        /\ \A i \in 1..Len(items) :
              ~items[i].has_id => ProblemRecords(items[i].name) # {}
        /\ iresults.restored + iresults.failed = Len(items)

\* C24: when the executor of datasets, dashboards, dataflows or apps has
\* returned, its details hold exactly one record per entry of the input, in
\* the order of the input, each a "requires_manual_recreation" or an error
\* record; no request was sent and the identifier mapping is untouched.
C24_OneGuidanceRecordPerItem ==
    pc = "i_done" =>
        /\ Len(iresults.details) = Len(items)
        /\ \A i \in 1..Len(items) :
              /\ iresults.details[i].name = items[i].name
              /\ iresults.details[i].status
                    \in {"requires_manual_recreation", "error"}
        /\ pending = <<>>
        /\ nextId = Len(remote) + 1
        /\ updateLog = <<>>
        /\ dataset_id_mapping \in SchedMappings

----------------------------------------------------------------------------
(* Termination of the restore jobs (specification SpecLive).               *)

\* C25: a restore job that is registered as "in_progress" is eventually
\* recorded as "completed" or "failed".
C25_JobReachesTerminal ==
    (job = "in_progress") ~> (job \in {"completed", "failed"})

\* a job is completed after the loop over the files imported one
C25_Witness ==
    /\ pc = "done"
    /\ job = "completed"
    /\ Len(itemLog) >= 1
    /\ \E i \in 1..Len(itemLog) : itemLog[i].accepted

----------------------------------------------------------------------------
(* Accounting of the RefreshSchedules phase (specification SpecSchedules). *)

\* C30: when restore_refresh_schedules has returned, restored + failed +
\* skipped is the number of entries, the details hold one record per entry
\* in the order of the input, and while it runs every entry before the
\* current one has its record, whatever happened to the entries before it.
C30_SchedAccounting ==
    /\ pc = "s_done" =>
         /\ sresults.restored + sresults.failed + sresults.skipped
              = Len(schedules)
         /\ Len(sresults.details) = Len(schedules)
    /\ pc = "s_entry" =>
         /\ Len(sresults.details) = sidx - 1
         /\ sresults.restored + sresults.failed + sresults.skipped = sidx - 1
    /\ \A i \in SchedProcessed :
         /\ i <= Len(schedules)
         /\ sresults.details[i].dataset = schedules[i].dataset_name
         /\ sresults.details[i].status \in {"configured", "failed", "skipped"}

\* a call has returned in which the first entry's processing raised and
\* the entry after it was configured
C30_Witness ==
    /\ pc = "s_done"
    /\ Len(schedules) >= 2
    /\ sresults.details[1].status = "failed"
    /\ sresults.details[1].error = "exception"
    /\ sresults.details[2].status = "configured"
    /\ sresults.failed = 1
    /\ sresults.restored = 1

====
